---- MODULE Spec2Model ----
(***************************************************************************)
(* Model of the PP-OCRv5 recognition weight converter:                     *)
(*   converter/ch_ppocr_v5_rec_server_converter.py  (PPOCRv5RecConverter,  *)
(*       read_network_config_from_yaml, __main__)                          *)
(*   pytorchocr/base_ocr_v20.py                     (BaseOCRV20)           *)
(*   pytorchocr/modeling/architectures/base_model.py (BaseModel)           *)
(* One conversion run is a sequence of steps; pc is the position of the    *)
(* script. Dictionaries are functions on their key set, ordered            *)
(* dictionaries are sequences of [key, val] entries, keys are strings.     *)
(***************************************************************************)
EXTENDS Integers, Sequences, FiniteSets, TLC

VARIABLES
    yamlFile,             \* the file at --yaml_path: [exists, doc], and [dir, files]
                          \* when the document names a character dictionary
    paramsFile,           \* the file at the .pdparams path: [exists, content]
    pc,                   \* position of the script
    exc,                  \* the exception that ended the run, "none" otherwise
    cfg,                  \* the config dict handed to the converter
    cfg0,                 \* the config as returned by the YAML reader
    para_state_dict,      \* the source weights, in checkpoint order
    out_channels_for_ctc, \* the inferred CTC class count
    headArgs,             \* head_config as handed to build_head
    net,                  \* self.net: its state dict in order, NoNet before
    pytorch_state_dict,   \* the state-dict snapshot load_paddle_weights works on
    idx,                  \* number of source keys the load loop has consumed
    loaded_keys_pytorch,  \* set of target keys recorded as loaded
    unmatched,            \* unmatched_paddle_keys_info: [key, why] in order
    outcomes,             \* what the loop did with each source key, in order
    report,               \* the unmatched keys printed after the loop
    warnings,             \* console warnings
    savedFile,            \* what torch.save wrote, NoFile if nothing
    stages,               \* the stages executed so far, in order
    run,                  \* "first" or "second" run on the same inputs
    firstSaved            \* what the first run wrote

vars == <<yamlFile, paramsFile, pc, exc, cfg, cfg0, para_state_dict,
          out_channels_for_ctc, headArgs, net, pytorch_state_dict, idx, loaded_keys_pytorch,
          unmatched, outcomes, report, warnings, savedFile, stages, run,
          firstSaved>>

-----------------------------------------------------------------------------
(* Python str methods, on TLA+ strings. An argument that is used more than *)
(* once is bound to its value first (Let), so that it is computed once.    *)

\* Body at the value of v
Let(v, Body(_)) == CHOOSE r \in {Body(x) : x \in {v}} : TRUE

\* the positions at which p occurs in s
Occurrences(s, p) ==
    {i \in 1..(Len(s) - Len(p) + 1) : SubSeq(s, i, i + Len(p) - 1) = p}

\* s.startswith(p)
StartsWith(s, p) == \E t \in {s} : Len(p) <= Len(t) /\ SubSeq(t, 1, Len(p)) = p

\* s.endswith(p)
EndsWith(s, p) ==
    \E t \in {s} : Len(p) <= Len(t) /\ SubSeq(t, Len(t) - Len(p) + 1, Len(t)) = p

\* s.find(p) + 1: the first position at which p occurs in s, 0 if none
Find(s, p) ==
    Let(Occurrences(s, p),
        LAMBDA m : IF m = {} THEN 0 ELSE CHOOSE i \in m : \A j \in m : i <= j)

\* p in s
Contains(s, p) == \E t \in {s} : Occurrences(t, p) # {}

\* s.replace(old, new, 1)
ReplaceFirst(s, old, new) ==
    Let(s, LAMBDA t :
        Let(Find(t, old), LAMBDA i :
            IF i = 0 THEN t
            ELSE SubSeq(t, 1, i - 1) \o new \o SubSeq(t, i + Len(old), Len(t))))

\* s.replace(old, new): every occurrence, left to right, not overlapping
RECURSIVE ReplaceAll(_, _, _)
ReplaceAll(s, old, new) ==
    Let(s, LAMBDA t :
        Let(Find(t, old), LAMBDA i :
            IF i = 0 THEN t
            ELSE SubSeq(t, 1, i - 1) \o new
                 \o ReplaceAll(SubSeq(t, i + Len(old), Len(t)), old, new)))

LowerChar(c) ==
    CASE c = "A" -> "a" [] c = "B" -> "b" [] c = "C" -> "c" [] c = "D" -> "d"
      [] c = "E" -> "e" [] c = "F" -> "f" [] c = "G" -> "g" [] c = "H" -> "h"
      [] c = "I" -> "i" [] c = "J" -> "j" [] c = "K" -> "k" [] c = "L" -> "l"
      [] c = "M" -> "m" [] c = "N" -> "n" [] c = "O" -> "o" [] c = "P" -> "p"
      [] c = "Q" -> "q" [] c = "R" -> "r" [] c = "S" -> "s" [] c = "T" -> "t"
      [] c = "U" -> "u" [] c = "V" -> "v" [] c = "W" -> "w" [] c = "X" -> "x"
      [] c = "Y" -> "y" [] c = "Z" -> "z" [] OTHER -> c

\* s.lower()
RECURSIVE Lower(_)
Lower(s) ==
    Let(s, LAMBDA t :
        IF Len(t) = 0 THEN t
        ELSE IF Len(t) = 1 THEN Let(SubSeq(t, 1, 1), LowerChar)
        ELSE Lower(SubSeq(t, 1, Len(t) \div 2))
             \o Lower(SubSeq(t, Len(t) \div 2 + 1, Len(t))))

-----------------------------------------------------------------------------
(* Python dicts and YAML values.                                           *)

Null == [kind |-> "null"]
Map(f) == [kind |-> "map", map |-> f]
IsMap(v) == v.kind = "map"
EmptyDict == <<>>

\* k in d
Has(d, k) == k \in DOMAIN d

\* d[k] = v
Put(d, k, v) == [y \in DOMAIN d \cup {k} |-> IF y = k THEN v ELSE d[y]]

\* del d[k]
Del(d, k) == [y \in DOMAIN d \ {k} |-> d[y]]

\* the keys of an ordered dict, in order
Keys(od) == [i \in 1..Len(od) |-> od[i].key]

KeySet(od) == {od[i].key : i \in 1..Len(od)}

\* od[k] for a key of od
Lookup(od, k) == od[CHOOSE i \in 1..Len(od) : od[i].key = k].val

\* od[k] = v on an ordered dict: in place for a key it has, appended otherwise
Assign(od, k, v) ==
    IF k \in KeySet(od)
    THEN [i \in 1..Len(od) |-> IF od[i].key = k THEN [key |-> k, val |-> v] ELSE od[i]]
    ELSE Append(od, [key |-> k, val |-> v])

Reverse(s) == [i \in 1..Len(s) |-> s[Len(s) + 1 - i]]

-----------------------------------------------------------------------------
(* Tensors: a shape and where the values come from. data.from names the    *)
(* source key (or the initialiser) and data.view how its elements are laid *)
(* out ("id", "T" transposed, "rep" repeated along dimension 2).           *)

Tensor(shape, from, view) ==
    [isTensor |-> TRUE, shape |-> shape, data |-> [from |-> from, view |-> view]]

NotATensor == [isTensor |-> FALSE, shape |-> <<>>, data |-> [from |-> "object", view |-> "id"]]

-----------------------------------------------------------------------------
(* Program constants.                                                      *)

\* num_pure_characters forced by the converter
NumPureCharacters == 18384
\* the out_channels_list BaseModel hands to a MultiHead
CTCLabelDecodeChannels == 18385
NRTRLabelDecodeChannels == 18388
SARLabelDecodeChannels == 18387
\* num_decoder_layers forced by the converter
ForcedDecoderLayers == 4
\* default_fallback_classes of BaseModel
DefaultFallbackClasses == 6623

-----------------------------------------------------------------------------
(* Inputs: the source checkpoints and the YAML documents of the runs.      *)

\* largest number of entries of a source checkpoint
MaxKeys == 2

Src(key, shape) == [key |-> key, val |-> Tensor(shape, key, "id")]
SrcObject(key) == [key |-> key, val |-> NotATensor]

\* the entries a source checkpoint is made of, in the order of its layout
SrcUniverse == <<
    Src("backbone.conv1.weight", <<2, 1, 1, 1>>),
    Src("backbone.bn1._mean", <<2>>),
    SrcObject("backbone.bn1._mean"),
    Src("backbone.last_conv.weight", <<2, 2, 1, 1>>),
    Src("head.ctc_encoder.encoder.conv4.conv.weight", <<2, 2, 1, 3>>),
    Src("head.ctc_encoder.encoder.conv4.conv.weight", <<2, 2>>),
    Src("head.ctc_head.fc.weight", <<2, 18385>>),
    Src("head.ctc_head.fc.weight", <<2, 5>>),
    Src("head.ctc_head.fc.bias", <<18385>>),
    Src("head.before_gtc.1.fc.weight", <<2, 3>>),
    Src("head.gtc_head.decoder.layers.0.self_attn.qkv.weight", <<2, 2>>),
    Src("head.gtc_head.decoder.layers.0.cross_attn.kv.weight", <<3, 4>>),
    Src("head.gtc_head.decoder.layers.0.cross_attn.kv_linear.weight", <<2, 4>>),
    Src("head.gtc_head.decoder.layers.0.cross_attn.k.weight", <<2, 2>>),
    Src("head.gtc_head.decoder.layers.0.pre_norm.weight", <<2>>),
    Src("head.gtc_head.tgt_word_prj.weight", <<2, 18389>>),
    Src("head.unknown.weight", <<2>>)
>>

\* the strictly increasing index sequences of length n over lo..Len(SrcUniverse)
RECURSIVE Picks(_, _)
Picks(n, lo) ==
    IF n = 0 THEN {<<>>}
    ELSE UNION {{<<i>> \o t : t \in Picks(n - 1, i + 1)} : i \in lo..Len(SrcUniverse)}

\* the source checkpoints: at most MaxKeys entries, no key twice
StateDicts ==
    LET sel == UNION {Picks(n, 1) : n \in 0..MaxKeys}
        dict(p) == [i \in 1..Len(p) |-> SrcUniverse[p[i]]]
    IN  {dict(p) : p \in {q \in sel : Cardinality(KeySet(dict(q))) = Len(q)}}

\* what paddle.load finds in the .pdparams file
ParamsContents ==
    {[kind |-> "corrupt", dict |-> <<>>], [kind |-> "tensor", dict |-> <<>>]}
    \cup {[kind |-> "dict", dict |-> d] : d \in StateDicts}

ParamsFiles ==
    {[exists |-> TRUE, content |-> c] : c \in ParamsContents}
    \cup {[exists |-> FALSE, content |-> [kind |-> "corrupt", dict |-> <<>>]]}

Backbone == Map([name |-> "PPHGNetV2_B4"])

ArchMulti ==
    [model_type |-> "rec", Backbone |-> Backbone,
     Head |-> Map([name |-> "MultiHead", out_channels |-> 97, num_classes |-> 97,
                   num_decoder_layers |-> 2])]
ArchMultiV5 ==
    [model_type |-> "rec", model_name |-> "PP-OCRv5_server_rec", num_classes |-> 6623,
     Backbone |-> Backbone, Head |-> Map([name |-> "MultiHead"])]
ArchCTC == [model_type |-> "rec", Backbone |-> Backbone, Head |-> Map([name |-> "CTCHead"])]
ArchOther == [model_type |-> "rec", Head |-> Map([name |-> "OtherHead"])]
ArchNoHead == [model_type |-> "rec", Backbone |-> Backbone]
ArchHeadNull == [model_type |-> "rec", Backbone |-> Backbone, Head |-> Null]
ArchNoType == [Backbone |-> Backbone, Head |-> Map([name |-> "MultiHead"])]

Architectures ==
    {ArchMulti, ArchMultiV5, ArchCTC, ArchOther, ArchNoHead, ArchHeadNull, ArchNoType}

\* what yaml.safe_load returns for the file
YamlDocs ==
    {[kind |-> "none"],
     Map([Global |-> Map(EmptyDict)]),
     Map([Architecture |-> Null]),
     Map([Architecture |-> Map(ArchMulti), Global |-> Null]),
     Map([Architecture |-> Map(ArchMulti), Global |-> Map([use_gpu |-> FALSE])])}
    \cup {Map([Architecture |-> Map(a)]) : a \in Architectures}

YamlFiles ==
    {[exists |-> TRUE, doc |-> d] : d \in YamlDocs}
    \cup {[exists |-> FALSE, doc |-> [kind |-> "none"]]}

NoConfig == [kind |-> "null"]
NoNet == <<[key |-> "<no net>", val |-> NotATensor]>>
NoFile == <<[key |-> "<no file>", val |-> NotATensor]>>
NoExc == [type |-> "none", at |-> "none"]
Raised(type, at) == [type |-> type, at |-> at]

-----------------------------------------------------------------------------
(* The readers.                                                            *)

\* the working directory of the process and the directory above converter/
Cwd == "/work"
ProjectRoot == "/repo"

\* os.path.join(a, b)
Join(a, b) ==
    IF StartsWith(b, "/") THEN b
    ELSE IF a = "" THEN b
    ELSE a \o "/" \o b

\* os.path.abspath(p), for paths whose only redundant components are "."
AbsPath(p) ==
    ReplaceAll(IF StartsWith(p, "/") THEN p ELSE Cwd \o "/" \o p, "/./", "/")

\* os.path.exists(p) in a file system holding the files `files`
Exists(files, p) == AbsPath(p) \in files

\* paths_to_try: as given, relative to the YAML, relative to the project root
PathsToTry(dir, path) ==
    <<path, Join(dir, path), Join(ProjectRoot, ReplaceFirst(path, "./", ""))>>

\* resolved_char_dict_path: None when no candidate exists
NotResolved == ""

\* the loop over paths_to_try: the first existing candidate, made absolute
ResolveCharDictPath(file, path) ==
    Let(PathsToTry(file.dir, path), LAMBDA tries :
        Let({i \in 1..Len(tries) : Exists(file.files, tries[i])}, LAMBDA hits :
            IF hits = {} THEN NotResolved
            ELSE AbsPath(tries[CHOOSE i \in hits : \A j \in hits : i <= j])))

\* the Global section after the character dictionary was looked up
ResolvedGlobal(file, global) ==
    IF ~Has(global, "character_dict_path") THEN global
    ELSE Let(ResolveCharDictPath(file, global["character_dict_path"]), LAMBDA resolved :
             IF resolved # NotResolved
             THEN Put(global, "character_dict_path", resolved)
             ELSE global)

\* read_network_config_from_yaml(yaml_path): the exception it raises, or the
\* config it returns and the document res it leaves behind
ReadNetworkConfigFromYaml(file) ==
    LET at == "read_network_config_from_yaml"
        res == file.doc
        fail(type) == [exc |-> Raised(type, at), cfg |-> NoConfig, res |-> res]
    IN  IF ~file.exists THEN fail("FileNotFoundError")
        ELSE IF ~IsMap(res) THEN fail("AttributeError")
        ELSE IF ~Has(res.map, "Architecture") \/ res.map["Architecture"] = Null
             THEN fail("ValueError")
        ELSE IF ~Has(res.map, "Global")
             THEN [exc |-> NoExc, cfg |-> res.map["Architecture"].map, res |-> res]
        ELSE IF ~IsMap(res.map["Global"]) THEN fail("TypeError")
        ELSE IF ~Has(res.map["Global"].map, "character_dict_path")
             THEN [exc |-> NoExc, cfg |-> res.map["Architecture"].map, res |-> res]
        ELSE [exc |-> NoExc,
              cfg |-> res.map["Architecture"].map,
              res |-> Map(Put(res.map, "Global",
                              Map(ResolvedGlobal(file, res.map["Global"].map))))]

\* a variant that returns whatever object paddle.load produced
ReadPaddleWeightsUnchecked(file) ==
    LET at == "read_paddle_weights"
        none == [exc |-> NoExc, dict |-> <<>>, second |-> Null, warned |-> {}]
    IN  IF ~file.exists THEN [none EXCEPT !.exc = Raised("FileNotFoundError", at)]
        ELSE IF file.content.kind = "corrupt"
             THEN [none EXCEPT !.exc = Raised("LoadError", at)]
        ELSE [none EXCEPT !.dict = file.content.dict]

\* BaseOCRV20.read_paddle_weights(weights_path): the exception it raises, or
\* the pair it returns, and the warnings it prints
ReadPaddleWeights(file) ==
    LET at == "read_paddle_weights"
        none == [exc |-> NoExc, dict |-> <<>>, second |-> Null, warned |-> {}]
    IN  IF ~file.exists THEN [none EXCEPT !.exc = Raised("FileNotFoundError", at)]
        ELSE IF file.content.kind = "corrupt"
             THEN [none EXCEPT !.exc = Raised("LoadError", at)]
        ELSE IF file.content.kind # "dict"
             THEN [none EXCEPT !.exc = Raised("RuntimeError", at)]
        ELSE [none EXCEPT !.dict = file.content.dict,
                          !.warned = {file.content.dict[i].key :
                                         i \in {j \in 1..Len(file.content.dict) :
                                                   ~file.content.dict[j].val.isTensor}}]

\* PPOCRv5RecConverter.del_invalid_state_dict: every entry is kept, in order
DelInvalidStateDict(d) == [i \in 1..Len(d) |-> d[i]]

-----------------------------------------------------------------------------
(* Inference of the CTC class count.                                       *)

\* a variant that tries the most general pattern first
WeightPatternsGeneralFirst == <<"fc.weight", "head.fc.weight", "head.ctc_head.fc.weight">>

WeightPatterns == <<"head.ctc_head.fc.weight", "head.fc.weight", "fc.weight">>
BiasPatterns == <<"head.ctc_head.fc.bias", "head.fc.bias", "fc.bias">>

\* the key the inner loop over reversed_keys stops at for a pattern, "" if none
MatchReversed(keys, pattern) ==
    Let({i \in 1..Len(keys) :
            \E key \in {keys[i]} :
                Contains(key, pattern) /\ Contains(Lower(key), "ctc")},
        LAMBDA m : IF m = {} THEN ""
                   ELSE keys[CHOOSE i \in m : \A j \in m : j <= i])

\* the key the loop over the patterns ends with, "" if none
RECURSIVE MatchPatterns(_, _)
MatchPatterns(keys, patterns) ==
    IF patterns = <<>> THEN ""
    ELSE Let(MatchReversed(keys, Head(patterns)),
             LAMBDA k : IF k # "" THEN k ELSE MatchPatterns(keys, Tail(patterns)))

\* v.shape[d] (d counted from 0) on a value of the source dict
ShapeAt(v, d, at) ==
    IF ~v.isTensor THEN [exc |-> Raised("AttributeError", at), value |-> -1]
    ELSE IF d + 1 > Len(v.shape) THEN [exc |-> Raised("IndexError", at), value |-> -1]
    ELSE [exc |-> NoExc, value |-> v.shape[d + 1]]

\* the try block of __init__ up to the positivity check: out_channels_for_ctc
DetermineOutChannels(d) ==
    LET at == "__init__"
        last == d[Len(d)]
        fallback ==
            IF ~last.val.isTensor THEN [exc |-> Raised("AttributeError", at), value |-> -1]
            ELSE IF Len(last.val.shape) = 2
                 THEN ShapeAt(last.val, IF EndsWith(last.key, ".weight") THEN 1 ELSE 0, at)
            ELSE IF Len(last.val.shape) = 1 THEN ShapeAt(last.val, 0, at)
            ELSE [exc |-> NoExc, value |-> -1]
    IN  Let(Keys(d), LAMBDA keys :
            Let(MatchPatterns(keys, WeightPatterns), LAMBDA wkey :
                IF wkey # "" THEN ShapeAt(Lookup(d, wkey), 1, at)
                ELSE Let(MatchPatterns(keys, BiasPatterns), LAMBDA bkey :
                         IF bkey # "" THEN ShapeAt(Lookup(d, bkey), 0, at)
                         ELSE fallback)))

\* a variant without the positivity check
InferOutChannelsUnchecked(d) == DetermineOutChannels(d)

\* the whole try block: a count that is not positive is a ValueError
InferOutChannels(d) ==
    Let(DetermineOutChannels(d), LAMBDA r :
        IF r.exc = NoExc /\ r.value <= 0
        THEN [exc |-> Raised("ValueError", "__init__"), value |-> r.value]
        ELSE r)

-----------------------------------------------------------------------------
(* The config handed to BaseModel.                                         *)

\* a variant that leaves a YAML-supplied num_classes in the MultiHead section
RewriteHeadKeepingNumClasses(head, out_channels) ==
    LET name == IF Has(head, "name") THEN head["name"] ELSE "UnknownHead"
    IN  IF name = "MultiHead"
        THEN Del(Put(head, "out_channels_list", [CTCLabelDecode |-> out_channels]),
                 "out_channels")
        ELSE IF name = "CTCHead" THEN Put(head, "out_channels", out_channels)
        ELSE head

\* the Head section after the head-name branch
RewriteHead(head, out_channels) ==
    LET name == IF Has(head, "name") THEN head["name"] ELSE "UnknownHead"
    IN  IF name = "MultiHead"
        THEN Del(Del(Put(head, "out_channels_list", [CTCLabelDecode |-> out_channels]),
                     "out_channels"), "num_classes")
        ELSE IF name = "CTCHead" THEN Put(head, "out_channels", out_channels)
        ELSE head

\* num_decoder_layers is forced when the Head section names one
ForceDecoderLayers(head) ==
    IF Has(head, "num_decoder_layers")
    THEN Put(head, "num_decoder_layers", ForcedDecoderLayers)
    ELSE head

\* the warning of the branch taken when no class count was derived
NoClassCountWarning == "num_classes not derived"

\* a variant that keeps a top-level num_classes the YAML supplied
RewriteConfigKeepingSupplied(config, out_channels) ==
    LET withHead == IF Has(config, "Head") THEN config ELSE Put(config, "Head", Map(EmptyDict))
    IN  IF ~IsMap(withHead["Head"])
        THEN [exc |-> Raised("AttributeError", "__init__"), cfg |-> withHead, warn |-> FALSE]
        ELSE LET head == RewriteHead(withHead["Head"].map, out_channels)
                 counted == IF out_channels > 0 /\ ~Has(withHead, "num_classes")
                            THEN Put(withHead, "num_classes", NumPureCharacters)
                            ELSE withHead
             IN  [exc |-> NoExc,
                  cfg |-> Put(counted, "Head", Map(ForceDecoderLayers(head))),
                  warn |-> FALSE]

\* the config update of __init__ between class-count inference and super().__init__
RewriteConfig(config, out_channels) ==
    LET withHead == IF Has(config, "Head") THEN config ELSE Put(config, "Head", Map(EmptyDict))
    IN  IF ~IsMap(withHead["Head"])
        THEN [exc |-> Raised("AttributeError", "__init__"), cfg |-> withHead, warn |-> FALSE]
        ELSE LET head == RewriteHead(withHead["Head"].map, out_channels)
                 counted == IF out_channels > 0
                            THEN Put(withHead, "num_classes", NumPureCharacters)
                            ELSE withHead
             IN  [exc |-> NoExc,
                  cfg |-> Put(counted, "Head", Map(ForceDecoderLayers(head))),
                  warn |-> /\ out_channels <= 0
                           /\ ~Has(withHead, "character_dict_path")
                           /\ ~Has(withHead, "num_classes")]

-----------------------------------------------------------------------------
(* Construction of the target model.                                       *)

Param(key, shape, module) == [key |-> key, shape |-> shape, module |-> module]

\* head_config as BaseModel hands it to build_head; Null when no head is built
HeadConfig(config, in_channels) ==
    IF ~Has(config, "Head") \/ config["Head"] = Null THEN Null
    ELSE LET copy == Put(config["Head"].map, "in_channels", in_channels)
         IN  IF Has(copy, "name") /\ copy["name"] = "MultiHead"
             THEN Map(Put(copy, "out_channels_list",
                          [CTCLabelDecode |-> CTCLabelDecodeChannels,
                           NRTRLabelDecode |-> NRTRLabelDecodeChannels,
                           SARLabelDecode |-> SARLabelDecodeChannels]))
             ELSE Map(copy)

UsesBackbone(config) == Has(config, "Backbone") /\ config["Backbone"] # Null

\* parameters and buffers of the backbone module
BackboneSkeleton ==
    <<Param("backbone.conv1.weight", <<2, 1, 1, 1>>, "Conv2d"),
      Param("backbone.bn1.running_mean", <<2>>, "BatchNorm2d"),
      Param("backbone.bn1.num_batches_tracked", <<>>, "BatchNorm2d")>>

\* the state-dict layouts build_head can give the head module
HeadSkeletons(head) ==
    IF head["name"] = "MultiHead"
    THEN LET ctc == head["out_channels_list"]["CTCLabelDecode"]
             nrtr == head["out_channels_list"]["NRTRLabelDecode"]
         IN  {<<Param("head.ctc_encoder.encoder.conv4.conv.weight", <<2, 2, 3, 3>>, "Conv2d"),
                Param("head.ctc_head.fc.weight", <<ctc, 2>>, "Linear"),
                Param("head.ctc_head.fc.bias", <<ctc>>, "Linear"),
                Param("head.nrtr_before_gtc.1.fc.weight", <<3, 2>>, "Linear"),
                Param("head.nrtr_head_transformer.decoder.0.self_attn.qkv_proj.weight",
                      <<2, 2>>, "Linear"),
                Param("head.nrtr_head_transformer.decoder.0.cross_attn.kv_proj.weight",
                      <<4, 2>>, "Linear"),
                Param("head.nrtr_head_transformer.decoder.0.norm1.weight", <<2>>, "LayerNorm"),
                Param("head.nrtr_head_transformer.tgt_word_prj.weight", <<nrtr, 2>>, "Linear")>>}
    ELSE IF head["name"] = "CTCHead"
    THEN {<<Param("head.fc.weight", <<head["out_channels"], 2>>, "Linear"),
            Param("head.fc.bias", <<head["out_channels"]>>, "Linear")>>}
    ELSE {<<>>}

\* the seeds torch's default generator can start a process with: the first
\* run's seed is called seedA, a later process draws the same one or another
Seeds(r) == IF r = "first" THEN {"seedA"} ELSE {"seedA", "seedB"}

\* BaseModel._initialize_weights on one state-dict entry
InitialValue(p, seed) ==
    IF p.module \in {"Conv2d", "Linear"} /\ EndsWith(p.key, ".weight")
    THEN Tensor(p.shape, seed, "init")
    ELSE Tensor(p.shape, "const", "init")

InitializeWeights(skeleton, seed) ==
    [i \in 1..Len(skeleton) |->
        [key |-> skeleton[i].key, val |-> InitialValue(skeleton[i], seed)]]

\* BaseOCRV20.__init__ -> build_net -> BaseModel.__init__: the exception raised,
\* or the head_config handed to build_head and the state dicts self.net can have
BuildNets(config, seed) ==
    LET fail(type, at) == [exc |-> Raised(type, at), head |-> Null, nets |-> {NoNet}]
        backbone == IF UsesBackbone(config) THEN BackboneSkeleton ELSE <<>>
        head == HeadConfig(config, IF UsesBackbone(config) THEN 2 ELSE 3)
    IN  IF ~Has(config, "model_type") THEN fail("KeyError", "BaseModel.__init__")
        ELSE IF head = Null
             THEN [exc |-> NoExc, head |-> Null,
                   nets |-> {InitializeWeights(backbone, seed)}]
        ELSE IF ~Has(head.map, "name") THEN fail("KeyError", "build_head")
        ELSE [exc |-> NoExc, head |-> head,
              nets |-> {InitializeWeights(backbone \o h, seed) : h \in HeadSkeletons(head.map)}]

-----------------------------------------------------------------------------
(* load_paddle_weights: the key rename.                                    *)

Go(key) == [act |-> "go", key |-> key]
Skip(key) == [act |-> "skip", key |-> key]
KvRecord(key) == [act |-> "kv", key |-> key]

\* an if/elif chain of replacements: the first pattern the key contains is
\* replaced everywhere by `to`
RECURSIVE ReplaceChain(_, _, _)
ReplaceChain(key, patterns, to) ==
    Let(key, LAMBDA k :
        IF patterns = <<>> THEN k
        ELSE IF Contains(k, Head(patterns)) THEN ReplaceAll(k, Head(patterns), to)
        ELSE ReplaceChain(k, Tail(patterns), to))

\* the out_proj chains: a key already holding `to` is left alone, `.fc.` is
\* replaced only in a key without ".mlp.fc"
OutProj(key, attn) ==
    Let(key, LAMBDA k :
        IF Contains(k, attn \o ".out_proj.") THEN k
        ELSE IF Contains(k, attn \o ".out_linear.")
             THEN ReplaceAll(k, attn \o ".out_linear.", attn \o ".out_proj.")
        ELSE IF Contains(k, attn \o ".fc.") /\ ~Contains(k, ".mlp.fc")
             THEN ReplaceAll(k, attn \o ".fc.", attn \o ".out_proj.")
        ELSE k)

\* the norm chains: a key already holding `to` is left alone
Norm(key, from, to) ==
    Let(key, LAMBDA k :
        IF Contains(k, to) THEN k
        ELSE IF Contains(k, from) THEN ReplaceAll(k, from, to)
        ELSE k)

\* the cross-attention kv chain
CrossKv(key) ==
    Let(key, LAMBDA k :
        IF Contains(k, ".cross_attn.kv.")
        THEN ReplaceAll(k, ".cross_attn.kv.", ".cross_attn.kv_proj.")
        ELSE ReplaceChain(k, <<".cross_attn.kv_linear.", ".cross_attn.kv_fc.">>,
                          ".cross_attn.kv_proj."))

\* the kv branch that records the key as loaded and continues
KvShortcut(key) ==
    \E k \in {key} :
        /\ Contains(k, ".cross_attn.kv.")
        /\ \E kv \in {CrossKv(k)} : Contains(kv, ".weight") \/ Contains(kv, ".bias")

\* the attention renames of rule 4, up to the cross-attention q chain
DecoderAttention(key) ==
    Let(IF Contains(key, "layers")
        THEN ReplaceFirst(key, "head.gtc_head.decoder.layers.",
                          "head.nrtr_head_transformer.decoder.")
        ELSE ReplaceFirst(key, "head.gtc_head.decoder.",
                          "head.nrtr_head_transformer.decoder."),
        LAMBDA base :
            ReplaceChain(
                OutProj(ReplaceChain(base, <<".self_attn.qkv.", ".self_attn.qkv_linear.",
                                             ".self_attn.qkv_fc.">>, ".self_attn.qkv_proj."),
                        ".self_attn"),
                <<".cross_attn.q.", ".cross_attn.q_linear.", ".cross_attn.q_fc.">>,
                ".cross_attn.q_proj."))

\* the renames of rule 4 after the kv chain
DecoderNorms(kv) ==
    Norm(Norm(Norm(OutProj(kv, ".cross_attn"), ".pre_norm.", ".norm1."),
              ".post_norm.", ".norm2."),
         ".ffn_norm.", ".norm3.")

\* rule 4: keys under head.gtc_head.decoder.
DecoderKey(key) ==
    Let(DecoderAttention(key), LAMBDA q :
        Let(CrossKv(q), LAMBDA kv :
            IF KvShortcut(q) THEN KvRecord(kv)
            ELSE IF Contains(kv, ".cross_attn.k.") \/ Contains(kv, ".cross_attn.v.")
                 THEN Skip(kv)
            ELSE Go(DecoderNorms(kv))))

\* the SVTR neck rule
SvtrKey(key) ==
    Let(key, LAMBDA k :
        IF StartsWith(k, "head.ctc_head.head.encoder_svtr.")
        THEN ReplaceFirst(k, "head.ctc_head.head.encoder_svtr.", "head.ctc_head.neck.svtr.")
        ELSE IF StartsWith(k, "head.ctc_head.head.encoder_svtr_fusion.")
             THEN ReplaceFirst(k, "head.ctc_head.head.encoder_svtr_fusion.",
                               "head.ctc_head.neck.svtr_fusion.")
        ELSE k)

BackboneSkips == {"backbone.last_conv.weight", "backbone.fc.weight", "backbone.fc.bias"}
GtcSkips == {"head.gtc_head.positional_encoding.pe", "head.gtc_head.tgt_word_prj.weight"}

\* rules 2 to 4 and the SVTR rule, on a key that passed the backbone skips
RenameHead(stats) ==
    Let(IF StartsWith(stats, "head.before_gtc.")
        THEN ReplaceFirst(stats, "head.before_gtc.", "head.nrtr_before_gtc.")
        ELSE stats,
        LAMBDA gtc :
            IF gtc = "head.gtc_head.embedding.embedding.weight"
            THEN Go("head.nrtr_head_transformer.embedding.embedding.weight")
            ELSE IF gtc \in GtcSkips THEN Skip(gtc)
            ELSE IF StartsWith(gtc, "head.gtc_head.decoder.")
                 THEN Let(DecoderKey(gtc), LAMBDA dec :
                          IF dec.act # "go" THEN dec ELSE Go(SvtrKey(dec.key)))
            ELSE Go(SvtrKey(gtc)))

\* a variant that replaces only the first '._mean' and the first '._variance'
RenameFirstStatOnly(paddle_key) ==
    Let(ReplaceFirst(ReplaceFirst(paddle_key, "._mean", ".running_mean"),
                     "._variance", ".running_var"),
        LAMBDA stats : IF stats \in BackboneSkips THEN Skip(stats) ELSE RenameHead(stats))

\* the rename rules of the loop body, from paddle_key to the membership test
Rename(paddle_key) ==
    Let(ReplaceAll(ReplaceAll(paddle_key, "._mean", ".running_mean"),
                   "._variance", ".running_var"),
        LAMBDA stats : IF stats \in BackboneSkips THEN Skip(stats) ELSE RenameHead(stats))

-----------------------------------------------------------------------------
(* load_paddle_weights: transpose, expansion and copy of one tensor.       *)

Conv4Key == "head.ctc_encoder.encoder.conv4.conv.weight"

Id(src) == [exc |-> FALSE, view |-> "id", shape |-> src.shape]
Throws == [exc |-> TRUE, view |-> "id", shape |-> <<>>]

\* a variant that expands a conv4 source of height 1 whatever the target's height
AdjustExpandingAnyTarget(pytorch_key, src, tgt) ==
    IF Contains(pytorch_key, Conv4Key)
    THEN IF Len(src.shape) < 3 THEN Throws
         ELSE IF src.shape[3] # 1 THEN Id(src)
         ELSE IF Len(tgt.shape) < 3 \/ Len(src.shape) < 4 THEN Throws
         ELSE [exc |-> FALSE, view |-> "rep",
               shape |-> <<src.shape[1], src.shape[2], tgt.shape[3], src.shape[4]>>]
    ELSE IF /\ EndsWith(pytorch_key, ".weight")
            /\ Len(src.shape) = 2
            /\ Len(tgt.shape) = 2
            /\ Reverse(src.shape) = tgt.shape
         THEN [exc |-> FALSE, view |-> "T", shape |-> Reverse(src.shape)]
    ELSE Id(src)

\* a variant that transposes under any key, not only under a '.weight' key
AdjustTransposingAnyKey(pytorch_key, src, tgt) ==
    IF Contains(pytorch_key, Conv4Key)
    THEN IF Len(src.shape) < 3 THEN Throws
         ELSE IF src.shape[3] # 1 THEN Id(src)
         ELSE IF Len(tgt.shape) < 3 THEN Throws
         ELSE IF tgt.shape[3] # 3 THEN Id(src)
         ELSE IF Len(src.shape) < 4 THEN Throws
         ELSE [exc |-> FALSE, view |-> "rep",
               shape |-> <<src.shape[1], src.shape[2], tgt.shape[3], src.shape[4]>>]
    ELSE IF /\ Len(src.shape) = 2
            /\ Len(tgt.shape) = 2
            /\ Reverse(src.shape) = tgt.shape
         THEN [exc |-> FALSE, view |-> "T", shape |-> Reverse(src.shape)]
    ELSE Id(src)

\* the transpose and shape-adjustment block: the view of the source tensor that
\* becomes source_torch_tensor_final, or the exception an index raises.
\* Source tensors have at most 4 dimensions.
Adjust(pytorch_key, src, tgt) ==
    IF Contains(pytorch_key, Conv4Key)
    THEN IF Len(src.shape) < 3 THEN Throws
         ELSE IF src.shape[3] # 1 THEN Id(src)
         ELSE IF Len(tgt.shape) < 3 THEN Throws
         ELSE IF tgt.shape[3] # 3 THEN Id(src)
         ELSE IF Len(src.shape) < 4 THEN Throws
         ELSE [exc |-> FALSE, view |-> "rep",
               shape |-> <<src.shape[1], src.shape[2], tgt.shape[3], src.shape[4]>>]
    ELSE IF /\ EndsWith(pytorch_key, ".weight")
            /\ Len(src.shape) = 2
            /\ Len(tgt.shape) = 2
            /\ Reverse(src.shape) = tgt.shape
         THEN [exc |-> FALSE, view |-> "T", shape |-> Reverse(src.shape)]
    ELSE Id(src)

\* a variant of the failure branches that appends nothing to the report
UnmatchedSilently(pytorch_key, why) ==
    [outcome |-> "skipped", why |-> why, key |-> pytorch_key, view |-> "id"]

\* the failure branches of the loop body: the source key is appended to
\* unmatched_paddle_keys_info and the loop continues
Unmatched(pytorch_key, why) ==
    [outcome |-> "unmatched", why |-> why, key |-> pytorch_key, view |-> "id"]

\* the loop body after the rename, for a key that reached the membership test
CopyOne(pytorch_key, src, state_dict) ==
    IF pytorch_key \notin KeySet(state_dict) THEN Unmatched(pytorch_key, "not_found")
    ELSE IF ~src.isTensor THEN Unmatched(pytorch_key, "exception")
    ELSE Let(Lookup(state_dict, pytorch_key), LAMBDA tgt :
             IF ~tgt.isTensor THEN Unmatched(pytorch_key, "not_tensor")
             ELSE Let(Adjust(pytorch_key, src, tgt), LAMBDA adj :
                      IF adj.exc THEN Unmatched(pytorch_key, "exception")
                      ELSE IF adj.shape # tgt.shape
                           THEN Unmatched(pytorch_key, "shape_mismatch")
                      ELSE [outcome |-> "copied", why |-> "", key |-> pytorch_key,
                            view |-> adj.view]))

\* one iteration of the loop over para_state_dict
LoadOne(entry, state_dict) ==
    Let(Rename(entry.key), LAMBDA r :
        IF r.act = "skip"
        THEN [outcome |-> "skipped", why |-> "", key |-> r.key, view |-> "id"]
        ELSE IF r.act = "kv"
        THEN [outcome |-> "kv_recorded", why |-> "", key |-> r.key, view |-> "id"]
        ELSE CopyOne(r.key, entry.val, state_dict))

\* a paddle tensor stored in the snapshot: it is no torch.Tensor
PaddleValue(src) == [src EXCEPT !.isTensor = FALSE]

\* target.copy_(source_final): the target keeps its shape and takes the values
Copied(tgt, paddle_key, view) == Tensor(tgt.shape, paddle_key, view)

IsTensorEntry(e) == e.val.isTensor

\* a variant that hands the whole state dict to torch.save
StateDictUnfiltered(state_dict) == state_dict

\* save_pytorch_weights: the mapping handed to torch.save
StateDictToSave(state_dict) == SelectSeq(state_dict, IsTensorEntry)

-----------------------------------------------------------------------------
(* The run.                                                                *)

StageOrder == <<"read", "filter", "infer", "rewrite", "build", "copy", "report", "serialize">>

inputs == <<yamlFile, paramsFile, run, firstSaved>>
loadVars == <<pytorch_state_dict, idx, loaded_keys_pytorch, unmatched, outcomes, report>>

Fresh ==
    /\ pc = "start"
    /\ exc = NoExc
    /\ cfg = NoConfig
    /\ cfg0 = NoConfig
    /\ para_state_dict = <<>>
    /\ out_channels_for_ctc = -1
    /\ headArgs = Null
    /\ net = NoNet
    /\ pytorch_state_dict = <<>>
    /\ idx = 0
    /\ loaded_keys_pytorch = {}
    /\ unmatched = <<>>
    /\ outcomes = <<>>
    /\ report = <<>>
    /\ warnings = {}
    /\ savedFile = NoFile
    /\ stages = <<>>

Init ==
    /\ yamlFile \in YamlFiles
    /\ paramsFile \in ParamsFiles
    /\ run = "first"
    /\ firstSaved = NoFile
    /\ Fresh

\* an exception leaves the script
Raise(e) ==
    /\ pc' = "failed"
    /\ exc' = e

\* __main__: cfg = read_network_config_from_yaml(args.yaml_path)
ReadConfig ==
    /\ pc = "start"
    /\ \E r \in {ReadNetworkConfigFromYaml(yamlFile)} :
           IF r.exc # NoExc
           THEN Raise(r.exc) /\ UNCHANGED <<cfg, cfg0>>
           ELSE pc' = "check_path" /\ cfg' = r.cfg /\ cfg0' = r.cfg /\ UNCHANGED exc
    /\ UNCHANGED <<inputs, para_state_dict, out_channels_for_ctc, headArgs, net,
                   loadVars, warnings, savedFile, stages>>

\* __main__: the existence check of the parameters file
CheckParamsPath ==
    /\ pc = "check_path"
    /\ IF ~paramsFile.exists
       THEN Raise(Raised("FileNotFoundError", "__main__"))
       ELSE pc' = "read" /\ UNCHANGED exc
    /\ UNCHANGED <<inputs, cfg, cfg0, para_state_dict, out_channels_for_ctc, headArgs,
                   net, loadVars, warnings, savedFile, stages>>

\* a caller that constructs PPOCRv5RecConverter(config, path) itself, with the
\* config the YAML reader returns and without __main__'s existence check
ConstructConverter ==
    /\ pc = "start"
    /\ \E r \in {ReadNetworkConfigFromYaml(yamlFile)} :
           /\ r.exc = NoExc
           /\ cfg' = r.cfg
           /\ cfg0' = r.cfg
    /\ pc' = "read"
    /\ UNCHANGED <<inputs, exc, para_state_dict, out_channels_for_ctc, headArgs, net,
                   loadVars, warnings, savedFile, stages>>

\* __init__ step 1: self.read_paddle_weights(paddle_model_params_path)
ReadWeights ==
    /\ pc = "read"
    /\ \E r \in {ReadPaddleWeights(paramsFile)} :
           IF r.exc # NoExc
           THEN Raise(r.exc) /\ UNCHANGED <<para_state_dict, warnings, stages>>
           ELSE /\ pc' = "filter"
                /\ para_state_dict' = r.dict
                /\ warnings' = r.warned
                /\ stages' = Append(stages, "read")
                /\ UNCHANGED exc
    /\ UNCHANGED <<inputs, cfg, cfg0, out_channels_for_ctc, headArgs, net, loadVars,
                   savedFile>>

\* __init__ step 2: self.del_invalid_state_dict(para_state_dict)
FilterKeys ==
    /\ pc = "filter"
    /\ para_state_dict' = DelInvalidStateDict(para_state_dict)
    /\ stages' = Append(stages, "filter")
    /\ pc' = "check_empty"
    /\ UNCHANGED <<inputs, exc, cfg, cfg0, out_channels_for_ctc, headArgs, net, loadVars,
                   warnings, savedFile>>

\* a variant in which the emptiness check comes after a config update
CheckNotEmptyAfterUpdate ==
    /\ pc = "check_empty"
    /\ cfg' = Put(cfg, "num_classes", NumPureCharacters)
    /\ IF para_state_dict = <<>>
       THEN Raise(Raised("ValueError", "__init__"))
       ELSE pc' = "infer" /\ UNCHANGED exc
    /\ UNCHANGED <<inputs, cfg0, para_state_dict, out_channels_for_ctc, headArgs,
                   net, loadVars, warnings, savedFile, stages>>

\* __init__ step 3: the emptiness check
CheckNotEmpty ==
    /\ pc = "check_empty"
    /\ IF para_state_dict = <<>>
       THEN Raise(Raised("ValueError", "__init__"))
       ELSE pc' = "infer" /\ UNCHANGED exc
    /\ UNCHANGED <<inputs, cfg, cfg0, para_state_dict, out_channels_for_ctc, headArgs,
                   net, loadVars, warnings, savedFile, stages>>

\* __init__ step 3: the try block that determines out_channels_for_ctc
InferClassCount ==
    /\ pc = "infer"
    /\ \E r \in {InferOutChannels(para_state_dict)} :
           IF r.exc # NoExc
           THEN Raise(r.exc) /\ UNCHANGED <<out_channels_for_ctc, stages>>
           ELSE /\ pc' = "rewrite"
                /\ out_channels_for_ctc' = r.value
                /\ stages' = Append(stages, "infer")
                /\ UNCHANGED exc
    /\ UNCHANGED <<inputs, cfg, cfg0, para_state_dict, headArgs, net, loadVars, warnings,
                   savedFile>>

\* __init__: the update of the config dictionary
UpdateConfig ==
    /\ pc = "rewrite"
    /\ \E r \in {RewriteConfig(cfg, out_channels_for_ctc)} :
           /\ cfg' = r.cfg
           /\ warnings' = IF r.warn THEN warnings \cup {NoClassCountWarning} ELSE warnings
           /\ IF r.exc # NoExc
              THEN Raise(r.exc) /\ UNCHANGED stages
              ELSE pc' = "build" /\ stages' = Append(stages, "rewrite") /\ UNCHANGED exc
    /\ UNCHANGED <<inputs, cfg0, para_state_dict, out_channels_for_ctc, headArgs, net,
                   loadVars, savedFile>>

\* BaseModel.__init__ sets in_channels on the Backbone section and
\* build_backbone pops its name
BackboneBuilt(config) ==
    IF UsesBackbone(config) /\ Has(config, "model_type")
    THEN Put(config, "Backbone", Map(Del(Put(config["Backbone"].map, "in_channels", 3), "name")))
    ELSE config

\* __init__ step 4: super().__init__(config) builds self.net
BuildNet ==
    /\ pc = "build"
    /\ cfg' = BackboneBuilt(cfg)
    /\ \E seed \in Seeds(run) : \E r \in {BuildNets(cfg, seed)} :
             IF r.exc # NoExc
             THEN Raise(r.exc) /\ UNCHANGED <<headArgs, net, stages>>
             ELSE /\ pc' = "load"
                  /\ headArgs' = r.head
                  /\ net' \in r.nets
                  /\ stages' = Append(stages, "build")
                  /\ UNCHANGED exc
    /\ UNCHANGED <<inputs, cfg0, para_state_dict, out_channels_for_ctc, loadVars, warnings,
                   savedFile>>

\* load_paddle_weights: the snapshot of the state dict and the empty records
BeginLoad ==
    /\ pc = "load"
    /\ pytorch_state_dict' = net
    /\ loaded_keys_pytorch' = {}
    /\ unmatched' = <<>>
    /\ idx' = 0
    /\ stages' = Append(stages, "copy")
    /\ pc' = "loop"
    /\ UNCHANGED <<inputs, exc, cfg, cfg0, para_state_dict, out_channels_for_ctc, headArgs,
                   net, outcomes, report, warnings, savedFile>>

\* the records and tensors one iteration leaves behind
Recorded(entry, r) ==
    /\ outcomes' = Append(outcomes, r.outcome)
    /\ unmatched' = IF r.outcome = "unmatched"
                    THEN Append(unmatched, [key |-> entry.key, why |-> r.why,
                                            target |-> IF r.why = "shape_mismatch"
                                                       THEN "" ELSE r.key])
                    ELSE unmatched
    /\ loaded_keys_pytorch' = IF r.outcome \in {"copied", "kv_recorded"}
                              THEN loaded_keys_pytorch \cup {r.key}
                              ELSE loaded_keys_pytorch
    /\ pytorch_state_dict' =
          IF r.outcome = "kv_recorded"
          THEN Assign(pytorch_state_dict, r.key, PaddleValue(entry.val))
          ELSE IF r.outcome = "copied"
          THEN Assign(pytorch_state_dict, r.key,
                      Copied(Lookup(pytorch_state_dict, r.key), entry.key, r.view))
          ELSE pytorch_state_dict
    /\ net' = IF r.outcome = "copied"
              THEN Assign(net, r.key, Copied(Lookup(net, r.key), entry.key, r.view))
              ELSE net

\* a variant of the loop body in which a failing key ends the load
LoadKeyStoppingAtFailure ==
    /\ pc = "loop"
    /\ idx < Len(para_state_dict)
    /\ \E entry \in {para_state_dict[idx + 1]} :
       \E r \in {LoadOne(entry, pytorch_state_dict)} :
           IF r.outcome = "unmatched"
           THEN /\ Raise(Raised("Exception", "load_paddle_weights"))
                /\ UNCHANGED <<outcomes, unmatched, loaded_keys_pytorch,
                               pytorch_state_dict, net>>
           ELSE Recorded(entry, r) /\ UNCHANGED <<pc, exc>>
    /\ idx' = idx + 1
    /\ UNCHANGED <<inputs, cfg, cfg0, para_state_dict, out_channels_for_ctc,
                   headArgs, report, warnings, savedFile, stages>>

\* a variant of the loop body that tries a failed key again
LoadKeyRetrying ==
    /\ pc = "loop"
    /\ idx < Len(para_state_dict)
    /\ \E entry \in {para_state_dict[idx + 1]} :
       \E r \in {LoadOne(entry, pytorch_state_dict)} :
           /\ Recorded(entry, r)
           /\ idx' = IF r.outcome = "unmatched" THEN idx ELSE idx + 1
    /\ UNCHANGED <<inputs, pc, exc, cfg, cfg0, para_state_dict, out_channels_for_ctc,
                   headArgs, report, warnings, savedFile, stages>>

\* load_paddle_weights: one iteration of the loop over the source entries
LoadKey ==
    /\ pc = "loop"
    /\ idx < Len(para_state_dict)
    /\ \E entry \in {para_state_dict[idx + 1]} :
       \E r \in {LoadOne(entry, pytorch_state_dict)} : Recorded(entry, r)
    /\ idx' = idx + 1
    /\ UNCHANGED <<inputs, pc, exc, cfg, cfg0, para_state_dict, out_channels_for_ctc,
                   headArgs, report, warnings, savedFile, stages>>

\* a variant in which the loop may be left before the last key
ReportBeforeLoopEnds ==
    /\ pc = "loop"
    /\ report' = [i \in 1..Len(unmatched) |-> unmatched[i].key]
    /\ stages' = Append(stages, "report")
    /\ pc' = "converted"
    /\ UNCHANGED <<inputs, exc, cfg, cfg0, para_state_dict, out_channels_for_ctc, headArgs,
                   net, pytorch_state_dict, idx, loaded_keys_pytorch, unmatched, outcomes,
                   warnings, savedFile>>

\* load_paddle_weights: the summary printed after the loop
Report ==
    /\ pc = "loop"
    /\ idx = Len(para_state_dict)
    /\ report' = [i \in 1..Len(unmatched) |-> unmatched[i].key]
    /\ stages' = Append(stages, "report")
    /\ pc' = "converted"
    /\ UNCHANGED <<inputs, exc, cfg, cfg0, para_state_dict, out_channels_for_ctc, headArgs,
                   net, pytorch_state_dict, idx, loaded_keys_pytorch, unmatched, outcomes,
                   warnings, savedFile>>

\* __main__: the test inference; its exceptions are caught and the model is in
\* eval mode, so no tensor changes
TestInference ==
    /\ pc = "converted"
    /\ pc' = "save"
    /\ UNCHANGED <<inputs, exc, cfg, cfg0, para_state_dict, out_channels_for_ctc, headArgs,
                   net, loadVars, warnings, savedFile, stages>>

\* converter.save_pytorch_weights(save_name): torch.save writes the mapping or
\* raises, and the exception is caught
SavePytorchWeights ==
    /\ pc = "save"
    /\ \E state_dict_to_save \in {StateDictToSave(net)} :
           IF state_dict_to_save = <<>>
           THEN UNCHANGED <<savedFile, stages>>
           ELSE \/ savedFile' = state_dict_to_save /\ stages' = Append(stages, "serialize")
                \/ UNCHANGED <<savedFile, stages>>
    /\ pc' = "done"
    /\ UNCHANGED <<inputs, exc, cfg, cfg0, para_state_dict, out_channels_for_ctc, headArgs,
                   net, loadVars, warnings>>

\* the converter is run again, in a new process, on the same files
RunAgain ==
    /\ pc = "done"
    /\ run = "first"
    /\ run' = "second"
    /\ firstSaved' = savedFile
    /\ pc' = "start"
    /\ exc' = NoExc
    /\ cfg' = NoConfig
    /\ cfg0' = NoConfig
    /\ para_state_dict' = <<>>
    /\ out_channels_for_ctc' = -1
    /\ headArgs' = Null
    /\ net' = NoNet
    /\ pytorch_state_dict' = <<>>
    /\ idx' = 0
    /\ loaded_keys_pytorch' = {}
    /\ unmatched' = <<>>
    /\ outcomes' = <<>>
    /\ report' = <<>>
    /\ warnings' = {}
    /\ savedFile' = NoFile
    /\ stages' = <<>>
    /\ UNCHANGED <<yamlFile, paramsFile>>

Next ==
    \/ ReadConfig
    \/ CheckParamsPath
    \/ ConstructConverter
    \/ ReadWeights
    \/ FilterKeys
    \/ CheckNotEmpty
    \/ InferClassCount
    \/ UpdateConfig
    \/ BuildNet
    \/ BeginLoad
    \/ LoadKey
    \/ Report
    \/ TestInference
    \/ SavePytorchWeights

Spec == Init /\ [][Next]_vars

\* two runs of the converter on the same inputs
SpecTwoRuns == Init /\ [][Next \/ RunAgain]_vars

\* the entries self.net.state_dict() of a BaseOCRV20 object can hold: parameters,
\* buffers and the extra state of a module
NetEntries == <<
    [key |-> "backbone.conv1.weight", val |-> Tensor(<<2, 1, 1, 1>>, "seedA", "init")],
    [key |-> "backbone.bn1.running_mean", val |-> Tensor(<<2>>, "backbone.bn1._mean", "id")],
    [key |-> "backbone._extra_state", val |-> NotATensor],
    [key |-> "head.fc.weight", val |-> Tensor(<<5, 2>>, "head.ctc_head.fc.weight", "T")],
    [key |-> "head.fc.bias", val |-> Tensor(<<5>>, "const", "init")],
    [key |-> "head._extra_state", val |-> NotATensor]
>>

\* the state dicts made of these entries, in module order
Nets ==
    {SelectSeq(NetEntries, LAMBDA e : e.key \in K) : K \in SUBSET KeySet(NetEntries)}

\* a BaseOCRV20 object about to save its net
SaveInit ==
    /\ yamlFile = [exists |-> FALSE, doc |-> [kind |-> "none"]]
    /\ paramsFile = [exists |-> FALSE, content |-> [kind |-> "corrupt", dict |-> <<>>]]
    /\ run = "first"
    /\ firstSaved = NoFile
    /\ exc = NoExc
    /\ cfg = NoConfig
    /\ cfg0 = NoConfig
    /\ para_state_dict = <<>>
    /\ out_channels_for_ctc = -1
    /\ headArgs = Null
    /\ pytorch_state_dict = <<>>
    /\ idx = 0
    /\ loaded_keys_pytorch = {}
    /\ unmatched = <<>>
    /\ outcomes = <<>>
    /\ report = <<>>
    /\ warnings = {}
    /\ savedFile = NoFile
    /\ stages = <<>>
    /\ net \in Nets
    /\ pc = "save"

\* save_pytorch_weights called on any such object
SpecSave == SaveInit /\ [][SavePytorchWeights]_vars

\* the strictly increasing index sequences of length n over lo..hi
RECURSIVE PicksOf(_, _, _)
PicksOf(n, lo, hi) ==
    IF n = 0 THEN {<<>>}
    ELSE UNION {{<<i>> \o t : t \in PicksOf(n - 1, i + 1, hi)} : i \in lo..hi}

\* the dicts of 1 to MaxKeys entries of a layout, in its order, no key twice
DictsOf(universe) ==
    LET sel == UNION {PicksOf(n, 1, Len(universe)) : n \in 1..MaxKeys}
        dict(p) == [i \in 1..Len(p) |-> universe[p[i]]]
    IN  {dict(p) : p \in {q \in sel : Cardinality(KeySet(dict(q))) = Len(q)}}

\* entries of source checkpoints that meet every branch of the class-count
\* inference: keys of the three weight and bias patterns with and without
\* 'ctc', and last keys of rank 0, 1, 2 and 4
InferUniverse == <<
    Src("head.ctc_head.fc.weight", <<2, 7>>),
    Src("head.ctc_head.fc.weight", <<7>>),
    Src("aux.head.ctc_head.fc.weight", <<2, 8>>),
    Src("CTC.head.fc.weight", <<2, 10>>),
    Src("neck.Ctc.fc.weight", <<2, 11>>),
    Src("head.fc.weight", <<2, 9>>),
    Src("head.ctc_head.fc.bias", <<12>>),
    Src("ctc.fc.bias", <<13>>),
    Src("head.fc.bias", <<14>>),
    Src("head.unknown.scale", <<5, 6>>),
    Src("head.empty.bias", <<0>>),
    Src("head.scalar", <<>>),
    Src("backbone.conv1.weight", <<2, 1, 1, 1>>),
    SrcObject("head.meta")
>>

\* __init__ after the emptiness check, for a config of the YAML reader and a
\* checkpoint of these entries
InferInit ==
    /\ \E a \in Architectures :
          /\ yamlFile = [exists |-> TRUE, doc |-> Map([Architecture |-> Map(a)])]
          /\ cfg = a
          /\ cfg0 = a
    /\ \E d \in DictsOf(InferUniverse) :
          /\ paramsFile = [exists |-> TRUE, content |-> [kind |-> "dict", dict |-> d]]
          /\ para_state_dict = d
          /\ warnings = ReadPaddleWeights([exists |-> TRUE,
                                           content |-> [kind |-> "dict", dict |-> d]]).warned
    /\ run = "first"
    /\ firstSaved = NoFile
    /\ exc = NoExc
    /\ out_channels_for_ctc = -1
    /\ headArgs = Null
    /\ net = NoNet
    /\ pytorch_state_dict = <<>>
    /\ idx = 0
    /\ loaded_keys_pytorch = {}
    /\ unmatched = <<>>
    /\ outcomes = <<>>
    /\ report = <<>>
    /\ savedFile = NoFile
    /\ stages = <<"read", "filter">>
    /\ pc = "infer"

\* __init__ from the class-count inference to the construction of the model
SpecInfer == InferInit /\ [][InferClassCount \/ UpdateConfig \/ BuildNet]_vars

\* entries of source checkpoints that meet every rename rule and every branch
\* of the transpose and conv4 block; the entries of rank 3 and 4 come first,
\* so that a checkpoint seldom ends with one
LoadUniverse == <<
    Src("head.ctc_encoder.encoder.conv4.conv.weight", <<2, 2, 1, 3>>),
    Src("head.ctc_encoder.encoder.conv4.conv.weight", <<2, 2, 3, 3>>),
    Src("head.ctc_encoder.encoder.conv4.conv.weight", <<2, 2, 1>>),
    Src("head.ctc_encoder.encoder.conv4.conv.weight", <<3, 3>>),
    Src("student.head.ctc_encoder.encoder.conv4.conv.weight", <<2, 2, 1, 3>>),
    Src("backbone.bn1._variance", <<2>>),
    Src("neck._mean.b._mean", <<2>>),
    Src("backbone.fc.bias", <<2>>),
    Src("head.ctc_head.head.encoder_svtr.pos_embed", <<2, 3>>),
    Src("head.ctc_head.head.encoder_svtr.pos_embed", <<3, 2>>),
    Src("head.ctc_head.head.encoder_svtr_fusion.norm.weight", <<2>>),
    Src("head.before_gtc.1.fc.weight", <<2, 3>>),
    Src("head.before_gtc.1.fc.weight", <<3, 2>>),
    Src("head.gtc_head.embedding.embedding.weight", <<2, 2>>),
    Src("head.gtc_head.decoder.norm.weight", <<2>>),
    Src("head.gtc_head.decoder.layers.0.self_attn.qkv.weight", <<2, 2>>),
    Src("head.gtc_head.decoder.layers.0.self_attn.qkv_linear.weight", <<2, 2>>),
    Src("head.gtc_head.decoder.layers.0.cross_attn.kv.weight", <<2, 4>>),
    Src("head.gtc_head.decoder.layers.0.cross_attn.kv_linear.weight", <<2, 4>>),
    Src("head.gtc_head.decoder.layers.0.cross_attn.v.bias", <<2>>),
    Src("head.unknown.weight", <<2>>)
>>

\* parameters and buffers a target model can hold under the renamed keys
TargetSkeleton == <<
    Param("backbone.bn1.running_var", <<2>>, "BatchNorm2d"),
    Param("head.ctc_encoder.encoder.conv4.conv.weight", <<2, 2, 3, 3>>, "Conv2d"),
    Param("student.head.ctc_encoder.encoder.conv4.conv.weight", <<2, 2, 1, 3>>, "Conv2d"),
    Param("head.ctc_head.neck.svtr.pos_embed", <<3, 2>>, "SVTR"),
    Param("head.nrtr_before_gtc.1.fc.weight", <<3, 2>>, "Linear"),
    Param("head.nrtr_head_transformer.embedding.embedding.weight", <<3, 3>>, "Embedding"),
    Param("head.nrtr_head_transformer.decoder.0.self_attn.qkv_proj.weight", <<2, 2>>, "Linear"),
    Param("head.nrtr_head_transformer.decoder.0.cross_attn.kv_proj.weight", <<4, 2>>, "Linear"),
    Param("head.unknown.weight", <<2>>, "LayerNorm")
>>

\* the target layouts: the whole skeleton, and the skeleton without the decoder
TargetSkeletons ==
    {TargetSkeleton,
     SelectSeq(TargetSkeleton,
               LAMBDA q : ~StartsWith(q.key, "head.nrtr_head_transformer.decoder."))}

\* a converter whose model has just been built, about to load a checkpoint of
\* these entries from which a class count could be inferred
LoadInit ==
    /\ \E d \in DictsOf(LoadUniverse) : \E r \in {InferOutChannels(d)} :
       \E c \in {RewriteConfig(ArchMulti, r.value)} :
          /\ r.exc = NoExc
          /\ paramsFile = [exists |-> TRUE, content |-> [kind |-> "dict", dict |-> d]]
          /\ para_state_dict = d
          /\ out_channels_for_ctc = r.value
          /\ cfg = BackboneBuilt(c.cfg)
          /\ headArgs = HeadConfig(c.cfg, 2)
    /\ yamlFile = [exists |-> TRUE, doc |-> Map([Architecture |-> Map(ArchMulti)])]
    /\ cfg0 = ArchMulti
    /\ \E sk \in TargetSkeletons : net = InitializeWeights(sk, "seedA")
    /\ run = "first"
    /\ firstSaved = NoFile
    /\ exc = NoExc
    /\ pytorch_state_dict = <<>>
    /\ idx = 0
    /\ loaded_keys_pytorch = {}
    /\ unmatched = <<>>
    /\ outcomes = <<>>
    /\ report = <<>>
    /\ warnings = {}
    /\ savedFile = NoFile
    /\ stages = <<"read", "filter", "infer", "rewrite", "build">>
    /\ pc = "load"

\* load_paddle_weights on such a converter
SpecLoad == LoadInit /\ [][BeginLoad \/ LoadKey \/ Report]_vars

\* the character_dict_path values of a Global section: relative and absolute
CharDictPaths == {"./ppocrv5_dict.txt", "/data/ppocrv5_dict.txt"}

\* the places a dictionary file can be at
DictLocations ==
    {"/work/ppocrv5_dict.txt", "/work/configs/ppocrv5_dict.txt",
     "/repo/ppocrv5_dict.txt", "/data/ppocrv5_dict.txt"}

\* YAML files in configs/ whose Global section names a character dictionary,
\* with the dictionary files that exist
DictYamlFiles ==
    {[exists |-> TRUE,
      doc |-> Map([Architecture |-> Map(a), Global |-> Map([character_dict_path |-> p])]),
      dir |-> "configs",
      files |-> f] : a \in {ArchMulti, ArchMultiV5}, p \in CharDictPaths,
                     f \in SUBSET DictLocations}

\* checkpoints of one entry
DictParamsFiles ==
    {[exists |-> TRUE, content |-> [kind |-> "dict", dict |-> <<SrcUniverse[i]>>]] :
        i \in 1..Len(SrcUniverse)}

\* the script started on such a YAML file
DictInit ==
    /\ yamlFile \in DictYamlFiles
    /\ paramsFile \in DictParamsFiles
    /\ run = "first"
    /\ firstSaved = NoFile
    /\ Fresh

SpecDict == DictInit /\ [][Next]_vars

-----------------------------------------------------------------------------
(* Properties of load_paddle_weights.                                      *)

InLoad == pc \in {"loop", "converted", "save", "done"}
AfterLoad == pc \in {"converted", "save", "done"}

\* the source entries processed so far that were recorded as loaded under k
GivenTo(k) ==
    {i \in 1..idx : /\ outcomes[i] \in {"copied", "kv_recorded"}
                    /\ Rename(para_state_dict[i].key).key = k}

\* the source tensor, after the transpose or the conv4 expansion, has the
\* shape of the model's tensor for target key k
FitsTarget(src, k) ==
    /\ src.isTensor
    /\ k \in KeySet(net)
    /\ \E tgt \in {Lookup(net, k)} : \E adj \in {Adjust(k, src, tgt)} :
           tgt.isTensor /\ ~adj.exc /\ adj.shape = tgt.shape

\* the model holds the values of the source tensor stored under key
CopiedFrom(key) ==
    \E j \in 1..Len(net) : net[j].val.isTensor /\ net[j].val.data.from = key

\* C1: every target key in loaded_keys_pytorch was given a source tensor whose
\* shape, after the optional transpose or conv4 expansion, equals the shape of
\* the model's tensor for that key, on every rename path
C1_LoadedKeysFitTarget ==
    InLoad =>
        \A k \in loaded_keys_pytorch :
            /\ GivenTo(k) # {}
            /\ \A i \in GivenTo(k) : FitsTarget(para_state_dict[i].val, k)

\* C2: for a MultiHead config, the CTC output-channel count handed to the head
\* when BaseModel is built is the count the converter inferred from the
\* checkpoint
C2_HeadSizedFromInferredCount ==
    (headArgs # Null /\ headArgs.map["name"] = "MultiHead") =>
        headArgs.map["out_channels_list"]["CTCLabelDecode"] = out_channels_for_ctc

FailureKinds == {"not_found", "not_tensor", "shape_mismatch", "exception"}

-----------------------------------------------------------------------------
(* Properties of the run.                                                  *)

Reached(stage) == \E i \in 1..Len(stages) : stages[i] = stage

\* C5: when the filtered source dict is empty, __init__ raises ValueError
\* before the config is modified and before a model is built; no net exists
\* afterwards
C5_EmptyDictRaisesFirst ==
    (Reached("filter") /\ para_state_dict = <<>>) =>
        /\ pc \in {"check_empty", "failed"}
        /\ pc = "failed" => exc = Raised("ValueError", "__init__")
        /\ cfg = cfg0
        /\ headArgs = Null
        /\ net = NoNet

\* the run ended by the emptiness check
C5_Witness ==
    /\ pc = "failed"
    /\ Reached("filter")
    /\ para_state_dict = <<>>
    /\ exc = Raised("ValueError", "__init__")

\* the parsed YAML document has an 'Architecture' entry that is not null
HasArchitecture(doc) ==
    /\ IsMap(doc)
    /\ Has(doc.map, "Architecture")
    /\ doc.map["Architecture"] # Null

\* C6: read_network_config_from_yaml raises FileNotFoundError for a missing
\* path and ValueError for a document without an 'Architecture' entry (or a
\* null one), returning no config in both cases; otherwise it returns exactly
\* the 'Architecture' section
C6_YamlReaderContract ==
    pc # "start" =>
        IF ~yamlFile.exists
        THEN exc = Raised("FileNotFoundError", "read_network_config_from_yaml")
             /\ cfg0 = NoConfig
        ELSE IF ~HasArchitecture(yamlFile.doc)
        THEN exc = Raised("ValueError", "read_network_config_from_yaml")
             /\ cfg0 = NoConfig
        ELSE exc.at # "read_network_config_from_yaml"
             /\ cfg0 = yamlFile.doc.map["Architecture"].map

\* the keys of the loaded dictionary whose value is no paddle.Tensor
NonTensorKeys(d) == {d[i].key : i \in {j \in 1..Len(d) : ~d[j].val.isTensor}}

\* C7: read_paddle_weights raises FileNotFoundError for a missing checkpoint
\* path and RuntimeError when the loaded object is no dictionary; it returns
\* the pair (state dict, None) only for a dictionary, and a non-tensor value
\* in the dictionary gives a warning and no failure
C7_ReadPaddleWeightsContract ==
    (Reached("read") \/ exc.at = "read_paddle_weights") =>
        /\ ~paramsFile.exists =>
               exc = Raised("FileNotFoundError", "read_paddle_weights")
        /\ (paramsFile.exists /\ paramsFile.content.kind = "tensor") =>
               exc = Raised("RuntimeError", "read_paddle_weights")
        /\ Reached("read") =>
               /\ paramsFile.exists
               /\ paramsFile.content.kind = "dict"
               /\ exc.at # "read_paddle_weights"
               /\ para_state_dict = paramsFile.content.dict
               /\ ReadPaddleWeights(paramsFile).second = Null
               /\ warnings = NonTensorKeys(paramsFile.content.dict)

\* a dictionary with a non-tensor value was returned, with a warning
C7_Witness ==
    /\ Reached("read")
    /\ NonTensorKeys(para_state_dict) # {}
    /\ warnings = NonTensorKeys(para_state_dict)

IsPrefix(s, t) == Len(s) <= Len(t) /\ \A i \in 1..Len(s) : s[i] = t[i]

\* C8: the stages run in one fixed order, none repeated or reordered; the
\* model is never built before the class count is inferred and the checkpoint
\* is never serialized before the weight copy has finished
C8_StagesInFixedOrder ==
    /\ IsPrefix(stages, StageOrder)
    /\ net # NoNet => (Reached("infer") /\ out_channels_for_ctc > 0)
    /\ savedFile # NoFile =>
           /\ Reached("report")
           /\ idx = Len(para_state_dict)
           /\ Len(outcomes) = Len(para_state_dict)

\* a run that went through every stage
C8_Witness ==
    /\ pc = "done"
    /\ stages = StageOrder
    /\ Len(para_state_dict) = 2

\* C9: two runs on the same checkpoint and the same YAML write checkpoints
\* with the same keys, shapes and values, also for the parameters that keep
\* their values from model initialization
C9_RunsWriteSameCheckpoint ==
    (run = "second" /\ pc = "done" /\ firstSaved # NoFile /\ savedFile # NoFile) =>
        savedFile = firstSaved

TensorPositions(sd) == {i \in 1..Len(sd) : sd[i].val.isTensor}

\* C10: save_pytorch_weights writes exactly the tensor-valued entries of the
\* model's state dict, in state-dict order and under the same keys; and when
\* there is no tensor entry it writes nothing
C10_SavesExactlyTensorEntries ==
    /\ savedFile # NoFile =>
           /\ pc = "done"
           /\ Len(savedFile) = Cardinality(TensorPositions(net))
           /\ \A i \in TensorPositions(net) :
                  savedFile[Cardinality({k \in TensorPositions(net) : k <= i})] = net[i]
    /\ (pc = "done" /\ TensorPositions(net) = {}) => savedFile = NoFile

\* a written checkpoint that leaves non-tensor entries of the state dict out
C10_Witness ==
    /\ savedFile # NoFile
    /\ Len(savedFile) >= 2
    /\ Len(savedFile) < Len(net)

-----------------------------------------------------------------------------
(* The loop of load_paddle_weights, key by key.                            *)

OutcomeKinds == {"skipped", "kv_recorded", "copied", "unmatched"}

\* the positions processed so far whose key was recorded as unmatched
UnmatchedPositions == {i \in 1..idx : outcomes[i] = "unmatched"}

\* C11: the loop visits each source key exactly once, in checkpoint order,
\* and gives it exactly one outcome (skipped, recorded as loaded, recorded as
\* unmatched); a failed key is never attempted again, and the loop ends after
\* the last key
C11_EachKeyVisitedOnce ==
    /\ [](InLoad =>
             /\ idx <= Len(para_state_dict)
             /\ Len(outcomes) = idx
             /\ \A i \in 1..idx : outcomes[i] \in OutcomeKinds
             /\ Len(unmatched) = Cardinality(UnmatchedPositions)
             /\ \A i \in UnmatchedPositions :
                    unmatched[Cardinality({k \in UnmatchedPositions : k <= i})].key
                        = para_state_dict[i].key)
    /\ [](pc = "loop" =>
             IF idx < Len(para_state_dict)
             THEN ENABLED LoadKey /\ ~ENABLED Report
             ELSE ENABLED Report /\ ~ENABLED LoadKey)
    /\ [][(pc = "loop" /\ idx' # idx) =>
             /\ idx' = idx + 1
             /\ Len(outcomes') = Len(outcomes) + 1
             /\ SubSeq(outcomes', 1, Len(outcomes)) = outcomes
             /\ SubSeq(unmatched', 1, Len(unmatched)) = unmatched]_vars

\* a loop that has ended after a failed first key and a skipped second key
C11_Witness ==
    /\ pc = "converted"
    /\ idx = 2
    /\ outcomes = <<"unmatched", "skipped">>
    /\ Len(unmatched) = 1

-----------------------------------------------------------------------------
(* Properties of the class-count inference and of the config update.       *)

\* the positions of the source keys that contain the pattern and 'ctc' in
\* any case
CtcMatches(pattern) ==
    {i \in 1..Len(para_state_dict) :
        \E key \in {para_state_dict[i].key} :
            Contains(key, pattern) /\ Contains(Lower(key), "ctc")}

\* the position selected for a list of patterns: the last match of the first
\* pattern that has one, 0 if no pattern has one
SelectedBy(patterns) ==
    IF \A n \in 1..Len(patterns) : CtcMatches(patterns[n]) = {} THEN 0
    ELSE LET first == CHOOSE n \in 1..Len(patterns) :
                         /\ CtcMatches(patterns[n]) # {}
                         /\ \A m \in 1..(n - 1) : CtcMatches(patterns[m]) = {}
             m == CtcMatches(patterns[first])
         IN  CHOOSE i \in m : \A j \in m : j <= i

\* dimension n (counted from 0) of a value, -1 if it has none
Dim(v, n) == IF v.isTensor /\ n < Len(v.shape) THEN v.shape[n + 1] ELSE -1

\* C12: the class count is dimension 1 of the last key matching the first of
\* the patterns 'head.ctc_head.fc.weight', 'head.fc.weight', 'fc.weight' that
\* some key containing 'ctc' matches; a bias key (dimension 0) is used only
\* when no weight key matches, and the last key of the checkpoint only when
\* no bias key matches either
C12_InferencePriority ==
    Reached("infer") =>
        \E w \in {SelectedBy(<<"head.ctc_head.fc.weight", "head.fc.weight", "fc.weight">>)} :
        \E b \in {SelectedBy(<<"head.ctc_head.fc.bias", "head.fc.bias", "fc.bias">>)} :
        \E last \in {para_state_dict[Len(para_state_dict)]} :
            IF w # 0 THEN out_channels_for_ctc = Dim(para_state_dict[w].val, 1)
            ELSE IF b # 0 THEN out_channels_for_ctc = Dim(para_state_dict[b].val, 0)
            ELSE out_channels_for_ctc =
                    IF Len(last.val.shape) = 2 /\ EndsWith(last.key, ".weight")
                    THEN Dim(last.val, 1)
                    ELSE Dim(last.val, 0)

\* a count taken from the key of the first pattern although a later key
\* matches the third pattern
C12_Witness ==
    /\ Reached("infer")
    /\ Len(para_state_dict) = 2
    /\ CtcMatches("head.ctc_head.fc.weight") = {1}
    /\ CtcMatches("fc.weight") = {1, 2}
    /\ out_channels_for_ctc = Dim(para_state_dict[1].val, 1)
    /\ out_channels_for_ctc # Dim(para_state_dict[2].val, 1)

\* the last-key fallback is the branch that determines the count
FallbackUsed ==
    /\ SelectedBy(<<"head.ctc_head.fc.weight", "head.fc.weight", "fc.weight">>) = 0
    /\ SelectedBy(<<"head.ctc_head.fc.bias", "head.fc.bias", "fc.bias">>) = 0

\* the try block of __init__ has been left, with a count or an exception
InferenceDone ==
    \/ Reached("infer")
    \/ /\ pc = "failed"
       /\ exc.at = "__init__"
       /\ Reached("filter")
       /\ para_state_dict # <<>>

NoModelBuilt ==
    /\ pc = "failed"
    /\ exc = Raised("ValueError", "__init__")
    /\ ~Reached("infer")
    /\ headArgs = Null
    /\ net = NoNet

\* C13: a model is built only for a positive class count; when the last-key
\* fallback meets a tensor whose rank is neither 1 nor 2, or when the derived
\* dimension is not positive, __init__ raises ValueError and builds no model
C13_PositiveCountOrNoModel ==
    /\ (net # NoNet \/ pc \in {"rewrite", "build"}) => out_channels_for_ctc > 0
    /\ InferenceDone =>
           \E w \in {SelectedBy(<<"head.ctc_head.fc.weight", "head.fc.weight", "fc.weight">>)} :
           \E b \in {SelectedBy(<<"head.ctc_head.fc.bias", "head.fc.bias", "fc.bias">>)} :
           \E last \in {para_state_dict[Len(para_state_dict)]} :
               /\ (w = 0 /\ b = 0 /\ last.val.isTensor /\ Len(last.val.shape) \notin {1, 2})
                      => NoModelBuilt
               /\ (w = 0 /\ b = 0 /\ last.val.isTensor /\ Len(last.val.shape) \in {1, 2}
                      /\ Dim(last.val, IF Len(last.val.shape) = 2
                                           /\ EndsWith(last.key, ".weight") THEN 1 ELSE 0) = 0)
                      => NoModelBuilt
               /\ (w # 0 /\ Dim(para_state_dict[w].val, 1) = 0) => NoModelBuilt
               /\ (w = 0 /\ b # 0 /\ Dim(para_state_dict[b].val, 0) = 0) => NoModelBuilt

\* the fallback met a tensor of rank 4 and the ValueError left __init__
C13_Witness ==
    /\ InferenceDone
    /\ FallbackUsed
    /\ Len(para_state_dict[Len(para_state_dict)].val.shape) = 4
    /\ NoModelBuilt

\* the Head section the YAML supplied; {} when it supplied none
SuppliedHead == IF Has(cfg0, "Head") THEN cfg0["Head"].map ELSE EmptyDict

C15_NumClassesForced ==
    /\ pc = "build" => Has(cfg, "num_classes") /\ cfg["num_classes"] = NumPureCharacters
    /\ pc = "rewrite" => out_channels_for_ctc > 0
    /\ NoClassCountWarning \notin warnings

\* construction is reached with a YAML-supplied num_classes that was replaced
\* and an inferred count that is not 18384 either
C15_Witness ==
    /\ pc = "build"
    /\ Has(cfg0, "num_classes") /\ cfg0["num_classes"] # NumPureCharacters
    /\ out_channels_for_ctc \notin {NumPureCharacters, NumPureCharacters + 1}
    /\ cfg["num_classes"] = NumPureCharacters

\* the target keys the records show for the i-th source key: the model tensor
\* that holds its values, the snapshot entry that holds the paddle value, or
\* the PyTorch key named in its line of the unmatched list
TargetsOf(i) ==
    Let(para_state_dict[i].key, LAMBDA k :
        IF outcomes[i] = "copied"
        THEN {net[j].key : j \in {n \in 1..Len(net) : net[n].val.data.from = k}}
        ELSE IF outcomes[i] = "kv_recorded"
        THEN {pytorch_state_dict[j].key :
                 j \in {n \in 1..Len(pytorch_state_dict) :
                           /\ ~pytorch_state_dict[n].val.isTensor
                           /\ pytorch_state_dict[n].val.data.from = k}}
        ELSE IF outcomes[i] = "unmatched"
        THEN {unmatched[j].target :
                 j \in {n \in 1..Len(unmatched) :
                           unmatched[n].key = k /\ unmatched[n].why # "shape_mismatch"}}
        ELSE {})

\* the key after the two replacements of the statistics names
StatsRenamed(k) ==
    ReplaceAll(ReplaceAll(k, "._mean", ".running_mean"), "._variance", ".running_var")

\* no rename rule of the loop body matches the key
NoRuleMatches(k) ==
    /\ ~Contains(k, "._mean")
    /\ ~Contains(k, "._variance")
    /\ ~StartsWith(k, "head.before_gtc.")
    /\ k # "head.gtc_head.embedding.embedding.weight"
    /\ ~StartsWith(k, "head.gtc_head.decoder.")
    /\ ~StartsWith(k, "head.ctc_head.head.encoder_svtr.")
    /\ ~StartsWith(k, "head.ctc_head.head.encoder_svtr_fusion.")

\* C16: the target key is a fixed function of the source key: every '._mean'
\* is '.running_mean' and every '._variance' is '.running_var' in it, a leading
\* 'head.before_gtc.' is 'head.nrtr_before_gtc.', a leading
\* 'head.gtc_head.decoder.layers.' is 'head.nrtr_head_transformer.decoder.', a
\* leading 'head.ctc_head.head.encoder_svtr.' is 'head.ctc_head.neck.svtr.',
\* and a key no rule matches keeps its name
C16_RenameByKeyAlone ==
    InLoad =>
        \A i \in 1..idx : \E k \in {para_state_dict[i].key} : \E s \in {StatsRenamed(k)} :
        \A t \in TargetsOf(i) :
            /\ t = Rename(k).key
            /\ ~Contains(t, "._mean") /\ ~Contains(t, "._variance")
            /\ Cardinality(Occurrences(t, ".running_mean"))
                  = Cardinality(Occurrences(k, "._mean"))
                    + Cardinality(Occurrences(k, ".running_mean"))
            /\ Cardinality(Occurrences(t, ".running_var"))
                  = Cardinality(Occurrences(k, "._variance"))
                    + Cardinality(Occurrences(k, ".running_var"))
            /\ StartsWith(k, "head.before_gtc.") =>
                   t = "head.nrtr_before_gtc." \o SubSeq(s, Len("head.before_gtc.") + 1, Len(s))
            /\ StartsWith(k, "head.gtc_head.decoder.layers.") =>
                   StartsWith(t, "head.nrtr_head_transformer.decoder.")
            /\ StartsWith(k, "head.ctc_head.head.encoder_svtr.") =>
                   t = "head.ctc_head.neck.svtr."
                       \o SubSeq(s, Len("head.ctc_head.head.encoder_svtr.") + 1, Len(s))
            /\ NoRuleMatches(k) => t = k

\* a key with two '._mean' and a key under the SVTR prefix were both renamed
C16_Witness ==
    /\ AfterLoad
    /\ \E i \in 1..idx :
          /\ Cardinality(Occurrences(para_state_dict[i].key, "._mean")) = 2
          /\ TargetsOf(i) = {"neck.running_mean.b.running_mean"}
    /\ \E i \in 1..idx :
          /\ StartsWith(para_state_dict[i].key, "head.ctc_head.head.encoder_svtr.")
          /\ TargetsOf(i) = {"head.ctc_head.neck.svtr.pos_embed"}

\* the positions of the model's tensors that hold the values of source key i
HeldAt(i) ==
    {n \in 1..Len(net) : /\ outcomes[i] = "copied"
                          /\ net[n].val.data.from = para_state_dict[i].key}

\* the condition of the transpose, on target key t, source shape and target shape
TransposeCondition(t, src, tgt) ==
    /\ EndsWith(t, ".weight")
    /\ ~Contains(t, Conv4Key)
    /\ Len(src) = 2
    /\ Len(tgt) = 2
    /\ Reverse(src) = tgt

\* C17: a source tensor is copied transposed exactly when its target key ends
\* with '.weight', is not the conv4 key, source and target are 2-D and the
\* reversed source shape is the target shape, and then it is always copied;
\* so a square 2-D weight is transposed, a 2-D weight that already has the
\* shape of a non-square target is copied as is, and no key without the
\* '.weight' suffix is transposed
C17_TransposedIffReversedWeight ==
    InLoad =>
        \A i \in 1..idx : \E e \in {para_state_dict[i]} : \E r \in {Rename(e.key)} :
            /\ \A n \in HeldAt(i) : \E t \in {net[n].key} : \E tgt \in {net[n].val.shape} :
                  /\ net[n].val.data.view = "T" <=> TransposeCondition(t, e.val.shape, tgt)
                  /\ (/\ EndsWith(t, ".weight") /\ ~Contains(t, Conv4Key)
                      /\ Len(tgt) = 2 /\ tgt[1] = tgt[2])
                         => net[n].val.data.view = "T"
                  /\ (/\ EndsWith(t, ".weight") /\ Len(tgt) = 2 /\ tgt[1] # tgt[2]
                      /\ e.val.shape = tgt)
                         => net[n].val.data.view = "id"
                  /\ ~EndsWith(t, ".weight") => net[n].val.data.view # "T"
            /\ (/\ r.act = "go"
                /\ e.val.isTensor
                /\ r.key \in KeySet(pytorch_state_dict)
                /\ Lookup(pytorch_state_dict, r.key).isTensor
                /\ TransposeCondition(r.key, e.val.shape,
                                      Lookup(pytorch_state_dict, r.key).shape))
                   => outcomes[i] = "copied"

\* a square weight was copied transposed and a weight that already had the
\* shape of its non-square target was copied as is
C17_Witness ==
    /\ AfterLoad
    /\ \E i \in 1..idx : \E n \in HeldAt(i) :
          /\ para_state_dict[i].val.shape = <<2, 2>>
          /\ net[n].val.data.view = "T"
    /\ \E i \in 1..idx : \E n \in HeldAt(i) :
          /\ para_state_dict[i].val.shape = <<3, 2>>
          /\ EndsWith(net[n].key, ".weight")
          /\ net[n].val.data.view = "id"

\* the conv4 expansion applies: source height 1, target height 3
ExpandCondition(src, tgt) ==
    /\ Len(src) = 4
    /\ Len(tgt) >= 3
    /\ src[3] = 1
    /\ tgt[3] = 3

C19_LoadedKeysHoldSourceValues ==
    AfterLoad =>
        \A k \in loaded_keys_pytorch :
            /\ k \in KeySet(net)
            /\ \E tgt \in {Lookup(net, k)} :
                  /\ tgt.isTensor
                  /\ \E i \in GivenTo(k) : \E e \in {para_state_dict[i]} :
                        /\ tgt.data.from = e.key
                        /\ tgt.data.view = Adjust(k, e.val, tgt).view

\* the source keys processed so far with the given outcome
WithOutcome(kind) == {i \in 1..idx : outcomes[i] = kind}

\* the source keys whose tensor was copied into the model under target key k
WritersOf(k) == {i \in WithOutcome("copied") : Rename(para_state_dict[i].key).key = k}

\* C20: within one load no target key is written by more than one source key,
\* the number of keys reported as loaded is the number of source keys that
\* were copied, and loaded + unmatched + silently skipped is the number of
\* source keys
C20_CountsAddUp ==
    AfterLoad =>
        /\ \A k \in KeySet(net) : Cardinality(WritersOf(k)) <= 1
        /\ Cardinality(loaded_keys_pytorch) = Cardinality(WithOutcome("copied"))
        /\ Cardinality(loaded_keys_pytorch) + Len(unmatched)
              + Cardinality(WithOutcome("skipped")) = Len(para_state_dict)

\* the YAML's Global section names a character dictionary
NamesCharDict ==
    /\ yamlFile.exists
    /\ HasArchitecture(yamlFile.doc)
    /\ Has(yamlFile.doc.map, "Global")
    /\ IsMap(yamlFile.doc.map["Global"])
    /\ Has(yamlFile.doc.map["Global"].map, "character_dict_path")

\* the first existing path among: as given, relative to the YAML's directory,
\* relative to the project root; NotResolved when none exists
FirstExisting ==
    Let(yamlFile.doc.map["Global"].map["character_dict_path"], LAMBDA p :
        IF Exists(yamlFile.files, p) THEN AbsPath(p)
        ELSE IF Exists(yamlFile.files, yamlFile.dir \o "/" \o p)
             THEN AbsPath(yamlFile.dir \o "/" \o p)
        ELSE IF Exists(yamlFile.files, ProjectRoot \o "/" \o ReplaceFirst(p, "./", ""))
             THEN AbsPath(ProjectRoot \o "/" \o ReplaceFirst(p, "./", ""))
        ELSE NotResolved)

\* C21: when the Global section names a character_dict_path of which a
\* candidate exists, the config read_network_config_from_yaml returns carries
\* the first existing candidate as 'character_dict_path', and so does the
\* config BaseModel is built from
C21_CharDictPathPassedOn ==
    (pc # "start" /\ NamesCharDict /\ FirstExisting # NotResolved) =>
        /\ exc.at # "read_network_config_from_yaml"
        /\ Has(cfg0, "character_dict_path")
        /\ cfg0["character_dict_path"] = FirstExisting
        /\ Reached("build") =>
               Has(cfg, "character_dict_path") /\ cfg["character_dict_path"] = FirstExisting

====
